---- MODULE Spec2Model ----
(***************************************************************************)
(* A model of nai2hta: the Hydrus Tag Archive store (class HTA), the       *)
(* prompt grammar (nai2hta/prompt.py), the pragmatic tag extractor         *)
(* (parse_tags), the Stable-Diffusion dialect translator                   *)
(* (derive_sd_tags) and the batch driver (derive_tags / main).             *)
(*                                                                         *)
(* Python strings are modelled as sequences of one-character strings, so   *)
(* that slicing, splitting, stripping and case folding are computed.       *)
(*                                                                         *)
(* Specifications:                                                         *)
(*   Spec       the store's interface: open, add_tags, close               *)
(*   SpecStmt   add_tags statement by statement, with a reader of the file *)
(*   SpecParse  prompt.parse on every text over an alphabet                *)
(*   SpecWrap   prompt.parse on a tag list, bare and in delimiters         *)
(*   SpecSd     derive_sd_tags on a parameters text                        *)
(*   SpecBatch  main over a batch of files                                 *)
(***************************************************************************)
EXTENDS Integers, Sequences, FiniteSets, TLC

VARIABLES
    db,          \* the archive file: tables and their rows
    hta,         \* the open HTA handle (its slots), or the closed handle
    last,        \* the last store operation: its arguments and outcome
    calls,       \* the number of add_tags calls made so far
    atOpen,      \* the hashes and tags rows the file held when the handle was opened
    pc,          \* statement-level add_tags: the statement the call is at
    frame,       \* statement-level add_tags: the call's locals
    seen,        \* what a concurrent reader of the file last observed
    prompt_text, \* the prompt text given to parse
    parsed,      \* what parse returned for prompt_text
    wrap,        \* the delimiters put around prompt_text, and what parse returned then
    info,        \* the "parameters" text given to derive_sd_tags
    out,         \* what derive_sd_tags yielded for info
    files,       \* the batch: the files main iterates over
    pos,         \* the index of the file main is at
    run          \* main: "init", "running", "done" or "aborted"

storeVars == <<db, hta, last, calls, atOpen>>

stmtVars == <<pc, frame, seen>>

parseVars == <<prompt_text, parsed, wrap>>

sdVars == <<info, out>>

batchVars == <<files, pos, run>>

vars == <<db, hta, last, calls, atOpen, pc, frame, seen, prompt_text, parsed, wrap, info, out,
          files, pos, run>>

-----------------------------------------------------------------------------
(* Helpers on sequences and sets.                                          *)

Range(s) == {s[i] : i \in 1..Len(s)}

SetMax(S) == IF S = {} THEN 0 ELSE CHOOSE m \in S : \A x \in S : x <= m

\* All orders in which a set can be iterated (Python set iteration order).
Orders(S) ==
    {o \in [1..Cardinality(S) -> S] : \A i, j \in 1..Cardinality(S) : i # j => o[i] # o[j]}

-----------------------------------------------------------------------------
(* Characters.                                                             *)

HexLower == <<"0","1","2","3","4","5","6","7","8","9","a","b","c","d","e","f">>
HexUpper == <<"0","1","2","3","4","5","6","7","8","9","A","B","C","D","E","F">>

IsHexDigit(c) == c \in Range(HexLower) \cup Range(HexUpper)

HexVal(c) ==
    IF c \in Range(HexLower)
    THEN (CHOOSE i \in 1..16 : HexLower[i] = c) - 1
    ELSE (CHOOSE i \in 1..16 : HexUpper[i] = c) - 1

\* bytes.fromhex(file_hash): ValueError on an odd length or a non-hex digit.
fromhex(s) ==
    IF Len(s) % 2 = 0 /\ \A i \in 1..Len(s) : IsHexDigit(s[i])
    THEN [ok |-> TRUE,
          bytes |-> [i \in 1..(Len(s) \div 2) |-> 16 * HexVal(s[2*i - 1]) + HexVal(s[2*i])]]
    ELSE [ok |-> FALSE, bytes |-> <<>>]

-----------------------------------------------------------------------------
(* The archive file and the schema script.                                 *)

\* A new, empty database file.
EmptyFile ==
    [tables |-> {}, hash_type |-> <<>>, hashes |-> {}, tags |-> {},
     namespaces |-> <<>>, mappings |-> {}]

\* A file whose hash_type table exists with the given rows and nothing else.
MarkerOnly(rows) == [EmptyFile EXCEPT !.tables = {"hash_type"}, !.hash_type = rows]

ExpectedHashType == 2

HTA_SCHEMA ==
    << [op |-> "create", table |-> "hash_type"],
       [op |-> "create", table |-> "hashes"],
       [op |-> "create", table |-> "mappings"],
       [op |-> "create", table |-> "namespaces"],
       [op |-> "create", table |-> "tags"],
       [op |-> "insert_hash_type", table |-> "hash_type"] >>

\* cursor.executescript: the statements run in order, each committed as it
\* runs; the first failing statement raises and the rest are not run.
RECURSIVE executescript(_, _)
executescript(d, script) ==
    IF script = <<>> THEN [ok |-> TRUE, db |-> d]
    ELSE LET st == Head(script) IN
         IF st.op = "create"
         THEN IF st.table \in d.tables
              THEN [ok |-> FALSE, db |-> d]
              ELSE executescript([d EXCEPT !.tables = @ \cup {st.table}], Tail(script))
         ELSE IF st.table \notin d.tables
              THEN [ok |-> FALSE, db |-> d]
              ELSE executescript([d EXCEPT !.hash_type = Append(@, ExpectedHashType)],
                                 Tail(script))

-----------------------------------------------------------------------------
(* class HTA.                                                              *)

Closed ==
    [open |-> FALSE, tags |-> <<>>, namespaces |-> {},
     last_hash_id |-> 0, last_tag_id |-> 0]

\* The try block of _load: SELECT hash_type; fetchone()[0]; assert == 2.
MarkerOk(d) ==
    /\ "hash_type" \in d.tables
    /\ Len(d.hash_type) > 0
    /\ d.hash_type[1] = ExpectedHashType

\* Mutant: _load starts the counter at 0 instead of MAX(hash_id).
LastHashIdFresh(d) == 0

\* MAX(hash_id) / MAX(tag_id), "or 0" for an empty table.
LastHashIdOnLoad(d) == SetMax({r.hash_id : r \in d.hashes})

LastTagIdOnLoad(d) == SetMax({r.tag_id : r \in d.tags})

\* HTA._load (after _connect): returns the file and the handle's slots.
HTA_load(d) ==
    LET init == IF MarkerOk(d) THEN [ok |-> TRUE, db |-> d]
                ELSE executescript(d, HTA_SCHEMA)
    IN  IF ~init.ok \/ ~({"namespaces", "hashes", "tags"} \subseteq init.db.tables)
        THEN [ok |-> FALSE, db |-> init.db, hta |-> Closed]
        ELSE [ok |-> TRUE, db |-> init.db,
              hta |-> [open |-> TRUE,
                       tags |-> <<>>,
                       namespaces |-> Range(init.db.namespaces),
                       last_hash_id |-> LastHashIdOnLoad(init.db),
                       last_tag_id |-> LastTagIdOnLoad(init.db)]]

\* INSERT INTO hashes: hash_id is the primary key, hash has a unique index.
InsertHash(d, hash_id, hash_bytes) ==
    IF \E r \in d.hashes : r.hash_id = hash_id \/ r.hash = hash_bytes
    THEN [ok |-> FALSE, db |-> d]
    ELSE [ok |-> TRUE,
          db |-> [d EXCEPT !.hashes = @ \cup {[hash_id |-> hash_id, hash |-> hash_bytes]}]]

\* INSERT INTO tags: tag_id is the primary key, tag has a unique index.
InsertTag(d, tag_id, text) ==
    IF \E r \in d.tags : r.tag_id = tag_id \/ r.tag = text
    THEN [ok |-> FALSE, db |-> d]
    ELSE [ok |-> TRUE,
          db |-> [d EXCEPT !.tags = @ \cup {[tag_id |-> tag_id, tag |-> text]}]]

NextHashId(h) == h.last_hash_id + 1

\* HTA._ensure_hash on the state s = [db, hta].
HTA_ensure_hash(s, file_hash) ==
    LET hb == fromhex(file_hash) IN
    IF ~hb.ok THEN [ok |-> FALSE, db |-> s.db, hta |-> s.hta, ret |-> 0]
    ELSE IF \E r \in s.db.hashes : r.hash = hb.bytes
    THEN [ok |-> TRUE, db |-> s.db, hta |-> s.hta,
          ret |-> (CHOOSE r \in s.db.hashes : r.hash = hb.bytes).hash_id]
    ELSE LET hash_id == NextHashId(s.hta)
             ins == InsertHash(s.db, hash_id, hb.bytes)
         IN  IF ~ins.ok THEN [ok |-> FALSE, db |-> s.db, hta |-> s.hta, ret |-> 0]
             ELSE [ok |-> TRUE, db |-> ins.db,
                   hta |-> [s.hta EXCEPT !.last_hash_id = hash_id], ret |-> hash_id]

\* A Tag is a str (plain) or a tuple (ns, text).
PlainTag(t) == [plain |-> TRUE, ns |-> <<>>, text |-> t]

NsTag(n, t) == [plain |-> FALSE, ns |-> n, text |-> t]

\* f"{ns}:{tag}", or the plain text.
CanonText(tag) == IF tag.plain THEN tag.text ELSE tag.ns \o <<":">> \o tag.text

\* Mutant: the namespace row is inserted without consulting self._namespaces.
ensure_tag_namespace_unchecked(s, tag) ==
    IF tag.plain
    THEN s
    ELSE [db |-> [s.db EXCEPT !.namespaces = Append(@, tag.ns)],
          hta |-> [s.hta EXCEPT !.namespaces = @ \cup {tag.ns}]]

\* HTA._ensure_tag, lines 116-120: register the namespace when unseen.
ensure_tag_namespace(s, tag) ==
    IF tag.plain \/ tag.ns \in s.hta.namespaces
    THEN s
    ELSE [db |-> [s.db EXCEPT !.namespaces = Append(@, tag.ns)],
          hta |-> [s.hta EXCEPT !.namespaces = @ \cup {tag.ns}]]

\* Mutant: the new tag_id skips a number.
NextTagIdSkipping(h) == h.last_tag_id + 2

NextTagId(h) == h.last_tag_id + 1

\* HTA._ensure_tag, lines 122-133: cache, then SELECT, then INSERT.
ensure_tag_row(s, text) ==
    IF text \in DOMAIN s.hta.tags
    THEN [ok |-> TRUE, db |-> s.db, hta |-> s.hta, ret |-> s.hta.tags[text]]
    ELSE IF \E r \in s.db.tags : r.tag = text
    THEN LET id == (CHOOSE r \in s.db.tags : r.tag = text).tag_id IN
         [ok |-> TRUE, db |-> s.db,
          hta |-> [s.hta EXCEPT !.tags = (text :> id) @@ @], ret |-> id]
    ELSE LET tag_id == NextTagId(s.hta)
             ins == InsertTag(s.db, tag_id, text)
         IN  IF ~ins.ok THEN [ok |-> FALSE, db |-> s.db, hta |-> s.hta, ret |-> 0]
             ELSE [ok |-> TRUE, db |-> ins.db,
                   hta |-> [s.hta EXCEPT !.last_tag_id = tag_id], ret |-> tag_id]

HTA_ensure_tag(s, tag) == ensure_tag_row(ensure_tag_namespace(s, tag), CanonText(tag))

\* The set comprehension of add_tags: _ensure_tag for each tag, in the
\* iteration order `order`; the first exception ends it.
RECURSIVE ensure_tags(_, _, _)
ensure_tags(s, order, ids) ==
    IF order = <<>> THEN [ok |-> TRUE, db |-> s.db, hta |-> s.hta, ids |-> ids]
    ELSE LET r == HTA_ensure_tag(s, Head(order)) IN
         IF ~r.ok THEN [ok |-> FALSE, db |-> r.db, hta |-> r.hta, ids |-> ids]
         ELSE ensure_tags([db |-> r.db, hta |-> r.hta], Tail(order), Append(ids, r.ret))

\* INSERT OR IGNORE INTO mappings: (hash_id, tag_id) is the primary key.
InsertMappings(d, pairs) == [ok |-> TRUE, db |-> [d EXCEPT !.mappings = @ \cup pairs]]

\* HTA.add_tags, with the tag set iterated in the order `order`.
add_tags(s, file_hash, order) ==
    LET h == HTA_ensure_hash(s, file_hash) IN
    IF ~h.ok THEN [ok |-> FALSE, db |-> h.db, hta |-> h.hta, hash_id |-> 0, tag_ids |-> <<>>]
    ELSE LET t == ensure_tags([db |-> h.db, hta |-> h.hta], order, <<>>) IN
         IF ~t.ok
         THEN [ok |-> FALSE, db |-> t.db, hta |-> t.hta, hash_id |-> h.ret, tag_ids |-> t.ids]
         ELSE LET m == InsertMappings(t.db, {<<h.ret, t.ids[i]>> : i \in 1..Len(t.ids)}) IN
              [ok |-> m.ok, db |-> m.db, hta |-> t.hta, hash_id |-> h.ret, tag_ids |-> t.ids]

-----------------------------------------------------------------------------
(* nai2hta/prompt.py: the prompt grammar, built from parsec combinators.   *)
(* A parser is a tree of combinators; Run applies one to (text, index)     *)
(* and returns parsec's Value: status, index and value.                    *)

None == [none |-> TRUE, neg |-> FALSE, whole |-> 0, frac |-> <<>>]

Success(i, v) == [ok |-> TRUE, i |-> i, v |-> v]

Failure(i) == [ok |-> FALSE, i |-> i, v |-> None]

\* The combinators imported from parsec, as tree nodes.
string(c) == [k |-> "string", c |-> c]

regex(name) == [k |-> "regex", re |-> name]

eof == [k |-> "eof"]

many(p) == [k |-> "times", p |-> p, mint |-> 0]

many1(p) == [k |-> "times", p |-> p, mint |-> 1]

optional(p) == [k |-> "optional", p |-> p]

lookahead(p) == [k |-> "lookahead", p |-> p]

sepBy1(p, s) == [k |-> "separated", p |-> p, sep |-> s, mint |-> 1]

sepEndBy(p, s) == [k |-> "separated", p |-> p, sep |-> s, mint |-> 0]

\* Parser's operators: >> compose, << skip, + joint, | choice, / excepts, < ends.
compose(p, q) == [k |-> "compose", p |-> p, q |-> q]

skip(p, q) == [k |-> "skip", p |-> p, q |-> q]

joint(p, q) == [k |-> "joint", p |-> p, q |-> q]

choice(p, q) == [k |-> "choice", p |-> p, q |-> q]

excepts(p, q) == [k |-> "excepts", p |-> p, q |-> q]

ends(p, q) == [k |-> "ends", p |-> p, q |-> q]

parsecmap(p, fn) == [k |-> "parsecmap", p |-> p, fn |-> fn]

\* prompt.py, recognize: the matched slice of the text as the value.
recognize(p) == [k |-> "recognize", p |-> p]

\* Mutant: one delimiter on each side, no repetition.
multi_delimited_once(begin, inner, end) == skip(compose(begin, inner), end)

\* prompt.py, multi_delimited.
multi_delimited(begin, inner, end) == skip(compose(many1(begin), inner), many1(end))

Whitespace == {" ", "\n", "\t"}

Digits == <<"0","1","2","3","4","5","6","7","8","9">>

IsDigit(c) == c \in Range(Digits)

DigitVal(c) == (CHOOSE d \in 1..10 : Digits[d] = c) - 1

\* Mutant: the closing delimiters are word characters.
IsWordCharOrCloser(c) == c \notin Whitespace \cup {"[", "{", "(", ",", ":", "|"}

\* [^\s\[\]\{\}\(\),:|]
IsWordChar(c) == c \notin Whitespace \cup {"[", "]", "{", "}", "(", ")", ",", ":", "|"}

\* The length of the longest run of characters satisfying the class, from index i.
RECURSIVE RunLength(_, _, _)
RunLength(class, text, i) ==
    IF i < Len(text) /\ ( \/ class = "space" /\ text[i + 1] \in Whitespace
                          \/ class = "digit" /\ IsDigit(text[i + 1])
                          \/ class = "word" /\ IsWordChar(text[i + 1]) )
    THEN 1 + RunLength(class, text, i + 1)
    ELSE 0

\* -?\d+(?:\.\d+)? : the length matched at index i, 0 for no match.
NumberLength(text, i) ==
    LET sign == IF i < Len(text) /\ text[i + 1] = "-" THEN 1 ELSE 0
        whole == RunLength("digit", text, i + sign)
        dot == i + sign + whole
        frac == IF dot < Len(text) /\ text[dot + 1] = "." THEN RunLength("digit", text, dot + 1)
                ELSE 0
    IN  IF whole = 0 THEN 0
        ELSE IF frac = 0 THEN sign + whole
        ELSE sign + whole + 1 + frac

\* re.match at index i: the length matched, 0 for no match (no pattern
\* of the grammar matches the empty string).
MatchLength(re, text, i) ==
    CASE re = "whitespace" -> RunLength("space", text, i)
      [] re = "word" -> RunLength("word", text, i)
      [] re = "number" -> NumberLength(text, i)

RECURSIVE DecimalValue(_)
DecimalValue(ds) ==
    IF ds = <<>> THEN 0 ELSE 10 * DecimalValue(SubSeq(ds, 1, Len(ds) - 1)) + DigitVal(ds[Len(ds)])

RECURSIVE StripTrailingZeros(_)
StripTrailingZeros(ds) ==
    IF ds # <<>> /\ ds[Len(ds)] = "0" THEN StripTrailingZeros(SubSeq(ds, 1, Len(ds) - 1)) ELSE ds

\* float(s) for a match of the number pattern: sign, whole part and the
\* fraction digits without trailing zeros.
float(s) ==
    LET neg == s[1] = "-"
        body == IF neg THEN Tail(s) ELSE s
        w == RunLength("digit", body, 0)
        zero == DecimalValue(SubSeq(body, 1, w)) = 0
                /\ StripTrailingZeros(SubSeq(body, w + 2, Len(body))) = <<>>
    IN  [none |-> FALSE, neg |-> neg /\ ~zero, whole |-> DecimalValue(SubSeq(body, 1, w)),
         frac |-> StripTrailingZeros(SubSeq(body, w + 2, Len(body)))]

\* sum(v, start=[])
RECURSIVE Flatten(_)
Flatten(v) == IF v = <<>> THEN <<>> ELSE Head(v) \o Flatten(Tail(v))

RECURSIVE Run(_, _, _)
RECURSIVE times(_, _, _, _, _)
RECURSIVE separated(_, _, _, _, _)

\* parsec.times(p, mint, inf): many and many1.  A success of p that
\* consumes nothing ends the loop, and so does the end of the text.
times(p, text, i, cnt, values) ==
    LET res == Run(p.p, text, i) IN
    IF res.ok
    THEN IF res.i = i THEN Success(i, values)
         ELSE IF res.i >= Len(text) THEN Success(res.i, Append(values, res.v))
         ELSE times(p, text, res.i, cnt + 1, Append(values, res.v))
    ELSE IF cnt >= p.mint THEN Success(i, values)
         ELSE res

\* parsec.separated(p, sep, mint, inf, end): sepBy1 and sepEndBy.  A
\* separator that is found is consumed, also when no p follows it.
separated(p, text, i, cnt, values) ==
    LET s == IF cnt > 0 THEN Run(p.sep, text, i) ELSE Success(i, None) IN
    IF ~s.ok
    THEN IF cnt < p.mint THEN s ELSE Success(i, values)
    ELSE LET res == Run(p.p, text, s.i) IN
         IF res.ok THEN separated(p, text, res.i, cnt + 1, Append(values, res.v))
         ELSE IF cnt >= p.mint THEN Success(s.i, values)
         ELSE res

Run(p, text, i) ==
    CASE p.k = "string" ->
            IF i < Len(text) /\ text[i + 1] = p.c THEN Success(i + 1, p.c) ELSE Failure(i)
      [] p.k = "regex" ->
            LET n == MatchLength(p.re, text, i) IN
            IF n > 0 THEN Success(i + n, SubSeq(text, i + 1, i + n)) ELSE Failure(i)
      [] p.k = "eof" ->
            IF i >= Len(text) THEN Success(i, None) ELSE Failure(i)
      [] p.k = "times" -> times(p, text, i, 0, <<>>)
      [] p.k = "separated" -> separated(p, text, i, 0, <<>>)
      [] p.k = "optional" ->
            LET res == Run(p.p, text, i) IN
            IF res.ok THEN res ELSE Success(i, None)
      [] p.k = "lookahead" ->
            LET res == Run(p.p, text, i) IN
            IF res.ok THEN Success(i, res.v) ELSE Failure(i)
      [] p.k = "compose" ->
            LET res == Run(p.p, text, i) IN
            IF ~res.ok THEN res ELSE Run(p.q, text, res.i)
      [] p.k = "skip" ->
            LET res == Run(p.p, text, i) IN
            IF ~res.ok THEN res
            ELSE LET end == Run(p.q, text, res.i) IN
                 IF end.ok THEN Success(end.i, res.v) ELSE Failure(end.i)
      [] p.k = "joint" ->
            LET res == Run(p.p, text, i) IN
            IF ~res.ok THEN res
            ELSE LET snd == Run(p.q, text, res.i) IN
                 IF snd.ok THEN Success(snd.i, <<res.v, snd.v>>) ELSE snd
      [] p.k = "choice" ->
            LET res == Run(p.p, text, i) IN
            IF res.ok \/ res.i # i THEN res ELSE Run(p.q, text, i)
      [] p.k = "excepts" ->
            LET res == Run(p.p, text, i) IN
            IF ~res.ok THEN res
            ELSE IF Run(p.q, text, res.i).ok THEN Failure(res.i) ELSE res
      [] p.k = "ends" ->
            LET res == Run(p.p, text, i) IN
            IF ~res.ok THEN res
            ELSE LET end == Run(p.q, text, res.i) IN
                 IF end.ok THEN res ELSE Failure(end.i)
      [] p.k = "parsecmap" ->
            LET res == Run(p.p, text, i) IN
            IF ~res.ok THEN res
            ELSE Success(res.i, IF p.fn = "float" THEN float(res.v) ELSE Flatten(res.v))
      [] p.k = "recognize" ->
            LET res == Run(p.p, text, i) IN
            IF res.ok THEN Success(res.i, SubSeq(text, i + 1, res.i)) ELSE res

\* The grammar of prompt.py.
whitespace == regex("whitespace")

ignore == many(whitespace)

lexeme(p) == skip(p, ignore)

lparen == lexeme(string("("))

rparen == lexeme(string(")"))

lbracket == lexeme(string("["))

rbracket == lexeme(string("]"))

lbrace == lexeme(string("{"))

rbrace == lexeme(string("}"))

colon == lexeme(string(":"))

pipe == lexeme(string("|"))

comma == lexeme(string(","))

newline == lexeme(string("\n"))

number == lexeme(parsecmap(regex("number"), "float"))

word == lexeme(regex("word"))

sep == lexeme(many1(choice(comma, newline)))

\* tags(end), line 63: end = pipe | end
tags_end(end) == choice(pipe, end)

\* tags(end), line 65.
tag_words(end) == recognize(many1(choice(word, excepts(colon, ends(number, tags_end(end))))))

\* tags(end), line 66.
tag(end) ==
    recognize(joint(tag_words(end),
                    many(choice(tag_words(end),
                                joint(joint(lparen, tag_words(end)),
                                      choice(rparen, lookahead(tags_end(end))))))))

tags(end) == sepBy1(joint(sepEndBy(tag(end), sep), optional(compose(colon, number))), pipe)

weighted_tags ==
    choice(choice(multi_delimited(lparen, tags(rparen), rparen),
                  multi_delimited(lbracket, tags(rbracket), rbracket)),
           multi_delimited(lbrace, tags(rbrace), rbrace))

prompt == parsecmap(many(skip(choice(weighted_tags, tags(eof)), optional(sep))), "sum")

\* Mutant: Parser.parse_partial, which stops where p stops.
parse_partial(p, text) == Run(p, text, 0)

\* Parser.parse_strict: (self < eof()).parse_partial(text)[0]
parse_strict(p, text) == Run(ends(p, eof), text, 0)

\* prompt.py, parse: the groups, or a ParseError.
parse(text) == parse_strict(compose(ignore, prompt), text)

-----------------------------------------------------------------------------
(* nai2hta.py: parse_tags, identify_model and the two dialect translators. *)

Upper == <<"A","B","C","D","E","F","G","H","I","J","K","L","M","N","O","P","Q","R","S","T","U","V","W","X","Y","Z">>

Lower == <<"a","b","c","d","e","f","g","h","i","j","k","l","m","n","o","p","q","r","s","t","u","v","w","x","y","z">>

\* str.lower(), one character.
LowerChar(c) ==
    IF c \in Range(Upper) THEN Lower[CHOOSE i \in 1..26 : Upper[i] = c] ELSE c

\* str.lower()
lower(s) == [i \in 1..Len(s) |-> LowerChar(s[i])]

\* WS.sub(" ", s): every run of whitespace becomes one space.
RECURSIVE CollapseWhitespace(_)
CollapseWhitespace(s) ==
    IF s = <<>> THEN <<>>
    ELSE IF s[1] \in Whitespace
    THEN <<" ">> \o CollapseWhitespace(SubSeq(s, 1 + RunLength("space", s, 0), Len(s)))
    ELSE <<s[1]>> \o CollapseWhitespace(Tail(s))

\* The index of the first occurrence of the string d in s, 0 when there is none.
Find(s, d) ==
    LET hits == {i \in 1..(Len(s) - Len(d) + 1) : SubSeq(s, i, i + Len(d) - 1) = d} IN
    IF hits = {} THEN 0 ELSE CHOOSE i \in hits : \A j \in hits : i <= j

\* s.split(d)
RECURSIVE split(_, _)
split(s, d) ==
    LET i == Find(s, d) IN
    IF i = 0 THEN <<s>>
    ELSE <<SubSeq(s, 1, i - 1)>> \o split(SubSeq(s, i + Len(d), Len(s)), d)

\* s.split(d, 1)
split_once(s, d) ==
    LET i == Find(s, d) IN
    IF i = 0 THEN <<s>>
    ELSE <<SubSeq(s, 1, i - 1), SubSeq(s, i + Len(d), Len(s))>>

\* s.strip(chars)
strip(s, chars) ==
    LET keep == {i \in 1..Len(s) : s[i] \notin chars} IN
    IF keep = {} THEN <<>>
    ELSE SubSeq(s, CHOOSE i \in keep : \A j \in keep : i <= j,
                   CHOOSE i \in keep : \A j \in keep : j <= i)

\* s.startswith(prefix)
startswith(s, prefix) == Len(s) >= Len(prefix) /\ SubSeq(s, 1, Len(prefix)) = prefix

TagPunctuation == {"(", ")", "{", "}", "[", "]", ",", " "}

\* One candidate of parse_tags: cut at the first colon, strip, lower.
parse_tag(t) == lower(strip(split_once(t, <<":">>)[1], TagPunctuation))

\* for tag in mixing.split(","): ... if tag: yield tag
RECURSIVE parse_mixing(_)
parse_mixing(cands) ==
    IF cands = <<>> THEN <<>>
    ELSE LET t == parse_tag(Head(cands)) IN
         (IF t = <<>> THEN <<>> ELSE <<t>>) \o parse_mixing(Tail(cands))

RECURSIVE parse_mixings(_)
parse_mixings(mixings) ==
    IF mixings = <<>> THEN <<>>
    ELSE parse_mixing(split(Head(mixings), <<",">>)) \o parse_mixings(Tail(mixings))

\* parse_tags: the tags yielded, in order.
parse_tags(s) == parse_mixings(split(CollapseWhitespace(s), <<"|">>))

\* identify_model
identify_model(name) ==
    LET parts == split(name, <<" ">>)
        n == lower(parts[Len(parts)])
    IN  IF n \in {<<"8","1","2","7","4","d","1","3">>, <<"9","2","5","9","9","7","e","9">>} THEN <<"f","u","l","l">>
        ELSE IF n \in {<<"1","d","4","4","3","6","5","e">>, <<"1","d","4","a","3","4","a","f">>} THEN <<"c","u","r","a","t","e","d">>
        ELSE n

PlainTags(ts) == [i \in 1..Len(ts) |-> PlainTag(ts[i])]

UcTags(ts) == [i \in 1..Len(ts) |-> NsTag(<<"u","c">>, ts[i])]

\* json.loads on the Comment records of the model: a dict whose values
\* are given as str() renders them, another JSON value, or a
\* JSONDecodeError for a text that is not JSON.
json_loads(s) ==
    CASE s = <<"{","\"","u","c","\"",":","\"","b","\"",",","\"","s","t","e","p","s","\"",":","2","}">> ->
            [ok |-> TRUE, dict |-> TRUE, obj |-> (<<"u","c">> :> <<"b">>) @@ (<<"s","t","e","p","s">> :> <<"2">>)]
      [] s = <<"{","\"","s","t","e","p","s","\"",":","2","}">> ->
            [ok |-> TRUE, dict |-> TRUE, obj |-> (<<"s","t","e","p","s">> :> <<"2">>)]
      [] s = <<"[","]">> ->
            [ok |-> TRUE, dict |-> FALSE, obj |-> <<>>]
      [] OTHER ->
            [ok |-> FALSE, dict |-> FALSE, obj |-> <<>>]

NovelAiParams == <<<<"s","t","e","p","s">>, <<"s","a","m","p","l","e","r">>, <<"s","e","e","d">>, <<"s","c","a","l","e">>, <<"n","o","i","s","e">>, <<"s","t","r","e","n","g","t","h">>>>

\* str(params.get(param)).lower()
param_text(obj, param) == lower(IF param \in DOMAIN obj THEN obj[param] ELSE <<"N","o","n","e">>)

\* derive_novel_ai_tags(info): the tags yielded, or the exception.
derive_novel_ai_tags(im_info) ==
    IF ~({"Description", "Source", "Comment"} \subseteq DOMAIN im_info)
    THEN [ok |-> FALSE, tags |-> <<>>]
    ELSE LET params == json_loads(im_info["Comment"]) IN
         IF ~params.ok \/ ~params.dict \/ <<"u","c">> \notin DOMAIN params.obj
         THEN [ok |-> FALSE, tags |-> <<>>]
         ELSE [ok |-> TRUE,
               tags |-> PlainTags(parse_tags(im_info["Description"]))
                        \o <<NsTag(<<"m","o","d","e","l">>, identify_model(im_info["Source"]))>>
                        \o UcTags(parse_tags(params.obj[<<"u","c">>]))
                        \o [i \in 1..Len(NovelAiParams) |->
                               NsTag(NovelAiParams[i], param_text(params.obj, NovelAiParams[i]))]]

NegativePrefix == <<"N","e","g","a","t","i","v","e"," ","p","r","o","m","p","t",":"," ">>

NegativePrefixLength == 17

\* Mutant: is_uc is computed afresh for every line.
sd_line_is_uc_reset(is_uc, line) == startswith(line, NegativePrefix)

\* derive_sd_tags, lines 183-185: is_uc after looking at the line.
sd_line_is_uc(is_uc, line) == is_uc \/ startswith(line, NegativePrefix)

\* derive_sd_tags, lines 183-184: the line with the prefix cut off.
sd_line_text(line) ==
    IF startswith(line, NegativePrefix)
    THEN SubSeq(line, NegativePrefixLength + 1, Len(line))
    ELSE line

\* derive_sd_tags, lines 181-190: the loop over lines[:-1].
RECURSIVE sd_prompt_tags(_, _)
sd_prompt_tags(lines, is_uc) ==
    IF lines = <<>> THEN <<>>
    ELSE LET uc == sd_line_is_uc(is_uc, Head(lines))
             ts == parse_tags(sd_line_text(Head(lines)))
         IN  (IF uc THEN UcTags(ts) ELSE PlainTags(ts)) \o sd_prompt_tags(Tail(lines), uc)

\* derive_sd_tags, lines 195-209: one (key, value) of the final line.
sd_param_tag(key, value) ==
    IF key = <<"m","o","d","e","l"," ","h","a","s","h">> THEN NsTag(<<"m","o","d","e","l">>, identify_model(value))
    ELSE IF key = <<"c","f","g"," ","s","c","a","l","e">> THEN NsTag(<<"s","c","a","l","e">>, value)
    ELSE IF key = <<"s","a","m","p","l","e","r">> /\ value = <<"e","u","l","e","r"," ","a">> THEN NsTag(key, <<"k","_","e","u","l","e","r","_","a","n","c","e","s","t","r","a","l">>)
    ELSE IF key = <<"s","a","m","p","l","e","r">> /\ value = <<"e","u","l","e","r">> THEN NsTag(key, <<"k","_","e","u","l","e","r">>)
    ELSE NsTag(key, value)

\* derive_sd_tags, lines 192-209: the loop over the final line's entries;
\* an entry without ": " raises ValueError at the unpacking.
RECURSIVE sd_param_tags(_, _)
sd_param_tags(params, acc) ==
    IF params = <<>> THEN [ok |-> TRUE, tags |-> acc]
    ELSE LET kv == split_once(strip(Head(params), Whitespace), <<":", " ">>) IN
         IF Len(kv) # 2 THEN [ok |-> FALSE, tags |-> acc]
         ELSE IF kv[1] = <<"s","i","z","e">> THEN sd_param_tags(Tail(params), acc)
         ELSE sd_param_tags(Tail(params), Append(acc, sd_param_tag(kv[1], kv[2])))

\* derive_sd_tags(info): the tags yielded in order, and whether the
\* generator ended or raised.
derive_sd_tags(s) ==
    LET lines == split(s, <<"\n">>) IN
    IF Len(lines) < 2 THEN [ok |-> TRUE, tags |-> <<>>]
    ELSE sd_param_tags(split(lower(lines[Len(lines)]), <<",">>),
                       sd_prompt_tags(SubSeq(lines, 1, Len(lines) - 1), FALSE))

NoTags == [none |-> TRUE, tags |-> {}, raised |-> FALSE]

\* Mutant: derive_tags without its try/except; the exception reaches main.
derive_tags_uncaught(file) ==
    IF ~file.readable THEN [NoTags EXCEPT !.raised = TRUE]
    ELSE IF "Software" \in DOMAIN file.info /\ file.info["Software"] = <<"N","o","v","e","l","A","I">>
    THEN LET r == derive_novel_ai_tags(file.info) IN
         IF r.ok THEN [none |-> FALSE, tags |-> Range(r.tags), raised |-> FALSE]
         ELSE [NoTags EXCEPT !.raised = TRUE]
    ELSE IF "parameters" \in DOMAIN file.info /\ file.info["parameters"] # <<>>
    THEN LET r == derive_sd_tags(file.info["parameters"]) IN
         IF r.ok THEN [none |-> FALSE, tags |-> Range(r.tags), raised |-> FALSE]
         ELSE [NoTags EXCEPT !.raised = TRUE]
    ELSE NoTags

\* derive_tags(image_path), on what Image.open gives for the file: the
\* tag set or None; every Exception is printed and swallowed.
derive_tags(file) ==
    IF ~file.readable THEN NoTags
    ELSE IF "Software" \in DOMAIN file.info /\ file.info["Software"] = <<"N","o","v","e","l","A","I">>
    THEN LET r == derive_novel_ai_tags(file.info) IN
         IF r.ok THEN [none |-> FALSE, tags |-> Range(r.tags), raised |-> FALSE]
         ELSE NoTags
    ELSE IF "parameters" \in DOMAIN file.info /\ file.info["parameters"] # <<>>
    THEN LET r == derive_sd_tags(file.info["parameters"]) IN
         IF r.ok THEN [none |-> FALSE, tags |-> Range(r.tags), raised |-> FALSE]
         ELSE NoTags
    ELSE NoTags

-----------------------------------------------------------------------------
(* The states in which a part of the program is not in use.                *)

NoCall ==
    [op |-> "none", ok |-> TRUE, h |-> <<>>, order |-> <<>>, hash_id |-> 0,
     tag_ids |-> <<>>, repeat |-> FALSE, pre |-> "none"]

NoRows == [hashes |-> {}, tags |-> {}]

NoFrame ==
    [h |-> <<>>, order |-> <<>>, i |-> 0, hash_id |-> 0, ids |-> <<>>, pending |-> {},
     pre |-> EmptyFile, post |-> EmptyFile]

NotParsed == [done |-> FALSE, ok |-> FALSE, i |-> 0, v |-> <<>>]

NoWrap ==
    [open |-> "(", opens |-> 0, closes |-> 0, between |-> <<>>, follow |-> <<>>,
     wrapped |-> NotParsed, followed |-> NotParsed, both |-> NotParsed]

NoOutput == [done |-> FALSE, ok |-> FALSE, tags |-> <<>>]

StoreIdle ==
    /\ hta = Closed
    /\ last = NoCall
    /\ calls = 0
    /\ atOpen = NoRows

StmtIdle ==
    /\ pc = "idle"
    /\ frame = NoFrame
    /\ seen = "none"

ParseIdle ==
    /\ prompt_text = <<>>
    /\ parsed = NotParsed
    /\ wrap = NoWrap

SdIdle ==
    /\ info = <<>>
    /\ out = NoOutput

BatchIdle ==
    /\ files = <<>>
    /\ pos = 0
    /\ run = "init"

\* The sequences over the set A of length at most n.
SeqsUpTo(A, n) == UNION {[1..k -> A] : k \in 0..n}

-----------------------------------------------------------------------------
(* Spec: the store's interface.                                            *)

MaxCalls == 3

MaxPermuted == 3

HashInputs == { <<"a","b">>, <<"A","B">>, <<"c","d">>, <<"z","z">> }

TagInputs == { PlainTag(<<"x">>), PlainTag(<<"u",":","y">>), NsTag(<<"u">>, <<"y">>) }

TagSets == SUBSET TagInputs

\* The files open() may be pointed at.
InitialFiles == { EmptyFile, MarkerOnly(<<>>), MarkerOnly(<<1>>) }

\* One order in which a set may be iterated.
RECURSIVE SomeOrder(_)
SomeOrder(T) ==
    IF T = {} THEN <<>>
    ELSE LET x == CHOOSE x \in T : TRUE IN <<x>> \o SomeOrder(T \ {x})

Reverse(s) == [i \in 1..Len(s) |-> s[Len(s) + 1 - i]]

\* The orders in which add_tags may iterate its tag set (Python fixes
\* none): every order of a small set, two opposite orders of a larger one.
IterationOrders(T) ==
    IF Cardinality(T) <= MaxPermuted THEN Orders(T)
    ELSE {SomeOrder(T), Reverse(SomeOrder(T))}

Init ==
    /\ db \in InitialFiles
    /\ StoreIdle /\ StmtIdle /\ ParseIdle /\ SdIdle /\ BatchIdle

\* HTA(path): _connect and _load.
Open ==
    /\ ~hta.open
    /\ LET r == HTA_load(db) IN
       /\ db' = r.db
       /\ hta' = r.hta
       /\ atOpen' = [hashes |-> r.db.hashes, tags |-> r.db.tags]
       /\ last' = [NoCall EXCEPT !.op = "open", !.ok = r.ok,
                                 !.pre = IF MarkerOk(db) THEN "ok"
                                         ELSE IF "hash_type" \in db.tables THEN "bad"
                                         ELSE "absent"]
    /\ UNCHANGED <<calls, stmtVars, parseVars, sdVars, batchVars>>

\* hta.add_tags(file_hash, tags).
AddTags ==
    /\ hta.open
    /\ calls < MaxCalls
    /\ calls' = calls + 1
    /\ \E file_hash \in HashInputs, T \in TagSets :
       \E order \in IterationOrders(T) :
          LET r == add_tags([db |-> db, hta |-> hta], file_hash, order) IN
          /\ db' = r.db
          /\ hta' = r.hta
          /\ last' = [op |-> "add_tags", ok |-> r.ok, h |-> file_hash, order |-> order,
                      hash_id |-> r.hash_id, tag_ids |-> r.tag_ids,
                      repeat |-> (last.op = "add_tags" /\ last.ok
                                  /\ last.h = file_hash /\ Range(last.order) = T),
                      pre |-> "none"]
    /\ UNCHANGED <<atOpen, stmtVars, parseVars, sdVars, batchVars>>

\* hta.close().
Close ==
    /\ hta.open
    /\ hta' = Closed
    /\ last' = [NoCall EXCEPT !.op = "close"]
    /\ UNCHANGED <<db, calls, atOpen, stmtVars, parseVars, sdVars, batchVars>>

Next == Open \/ AddTags \/ Close

Spec == Init /\ [][Next]_vars

-----------------------------------------------------------------------------
(* SpecStmt: add_tags statement by statement.  The connection is opened    *)
(* with isolation_level=None (autocommit): every INSERT is committed as    *)
(* it runs, so the file after each statement is what another connection    *)
(* reads.                                                                  *)

\* add_tags is entered: the tag set's iteration order is fixed.
Call ==
    /\ pc = "idle"
    /\ hta.open
    /\ calls < MaxCalls
    /\ calls' = calls + 1
    /\ \E file_hash \in HashInputs, T \in TagSets :
       \E order \in IterationOrders(T) :
          frame' = [h |-> file_hash, order |-> order, i |-> 1, hash_id |-> 0,
                    ids |-> <<>>, pending |-> {}, pre |-> db,
                    post |-> add_tags([db |-> db, hta |-> hta], file_hash, order).db]
    /\ pc' = "ensure_hash"
    /\ UNCHANGED <<db, hta, last, atOpen, seen, parseVars, sdVars, batchVars>>

\* hash_id = self._ensure_hash(file_hash)
StepEnsureHash ==
    /\ pc = "ensure_hash"
    /\ LET r == HTA_ensure_hash([db |-> db, hta |-> hta], frame.h) IN
       /\ db' = r.db
       /\ hta' = r.hta
       /\ frame' = [frame EXCEPT !.hash_id = r.ret]
       /\ pc' = IF ~r.ok THEN "idle"
                ELSE IF frame.order = <<>> THEN "mappings" ELSE "ensure_ns"
    /\ UNCHANGED <<last, calls, atOpen, seen, parseVars, sdVars, batchVars>>

\* _ensure_tag, first statement: INSERT INTO namespaces
StepEnsureNamespace ==
    /\ pc = "ensure_ns"
    /\ LET r == ensure_tag_namespace([db |-> db, hta |-> hta], frame.order[frame.i]) IN
       /\ db' = r.db
       /\ hta' = r.hta
    /\ pc' = "ensure_tag"
    /\ UNCHANGED <<last, calls, atOpen, frame, seen, parseVars, sdVars, batchVars>>

\* _ensure_tag, second statement: SELECT / INSERT INTO tags
StepEnsureTag ==
    /\ pc = "ensure_tag"
    /\ LET r == ensure_tag_row([db |-> db, hta |-> hta], CanonText(frame.order[frame.i]))
           ids == Append(frame.ids, r.ret)
           done == frame.i = Len(frame.order)
       IN
       /\ db' = r.db
       /\ hta' = r.hta
       /\ frame' = [frame EXCEPT !.ids = ids, !.i = @ + 1,
                        !.pending = IF done
                                    THEN {<<frame.hash_id, ids[k]>> : k \in 1..Len(ids)}
                                    ELSE {}]
       /\ pc' = IF ~r.ok THEN "idle" ELSE IF done THEN "mappings" ELSE "ensure_ns"
    /\ UNCHANGED <<last, calls, atOpen, seen, parseVars, sdVars, batchVars>>

\* executemany: one INSERT OR IGNORE INTO mappings per pair of the set
StepInsertMapping ==
    /\ pc = "mappings"
    /\ \E m \in frame.pending :
       /\ db' = InsertMappings(db, {m}).db
       /\ frame' = [frame EXCEPT !.pending = @ \ {m}]
    /\ UNCHANGED <<hta, last, calls, atOpen, pc, seen, parseVars, sdVars, batchVars>>

\* add_tags returns
Return ==
    /\ pc = "mappings"
    /\ frame.pending = {}
    /\ pc' = "idle"
    /\ UNCHANGED <<storeVars, frame, seen, parseVars, sdVars, batchVars>>

\* Another connection reads the file: it sees it between two calls, or
\* with some of the running call's statements applied.
Read ==
    /\ seen' = IF pc = "idle" \/ db \in {frame.pre, frame.post} THEN "whole" ELSE "partial"
    /\ UNCHANGED <<storeVars, pc, frame, parseVars, sdVars, batchVars>>

StmtOpen == pc = "idle" /\ Open

StmtClose == pc = "idle" /\ Close

NextStmt ==
    \/ StmtOpen
    \/ StmtClose
    \/ Call
    \/ StepEnsureHash
    \/ StepEnsureNamespace
    \/ StepEnsureTag
    \/ StepInsertMapping
    \/ Return
    \/ Read

InitStmt ==
    /\ db = EmptyFile
    /\ StoreIdle /\ StmtIdle /\ ParseIdle /\ SdIdle /\ BatchIdle

SpecStmt == InitStmt /\ [][NextStmt]_vars

\* The statements of one call add up to the whole call.
StmtRefinesCall == (pc = "mappings" /\ frame.pending = {}) => db = frame.post

-----------------------------------------------------------------------------
(* SpecParse: prompt.parse on every text over ParseAlphabet.               *)

MaxTextLen == 4

ParseAlphabet == {"a", "1", " ", ",", ":", "|", "(", ")", "{", "}"}

ParseResult(r) == [done |-> TRUE, ok |-> r.ok, i |-> r.i, v |-> IF r.ok THEN r.v ELSE <<>>]

InitParse ==
    /\ prompt_text \in SeqsUpTo(ParseAlphabet, MaxTextLen)
    /\ parsed = NotParsed
    /\ wrap = NoWrap
    /\ db = EmptyFile
    /\ StoreIdle /\ StmtIdle /\ SdIdle /\ BatchIdle

\* parse(text)
Parse ==
    /\ ~parsed.done
    /\ parsed' = ParseResult(parse(prompt_text))
    /\ UNCHANGED <<prompt_text, wrap, storeVars, stmtVars, sdVars, batchVars>>

NextParse == Parse

SpecParse == InitParse /\ [][NextParse]_vars

-----------------------------------------------------------------------------
(* SpecWrap: prompt.parse on a tag list, bare, in delimiters, and in       *)
(* delimiters with more text after them.                                   *)

MaxListLen == 4

MaxRepeat == 2

ListAlphabet == {"a", "1", " ", ",", ":", "(", ")"}

Closer(open) == CASE open = "(" -> ")" [] open = "[" -> "]" [] open = "{" -> "}"

Repeat(c, n) == [i \in 1..n |-> c]

\* The text in `opens` opening and `closes` closing delimiters.
Wrapped(L, open, opens, closes) == Repeat(open, opens) \o L \o Repeat(Closer(open), closes)

\* The nesting depth of parentheses after each prefix of the text never
\* falls below 0 and ends at 0.
RECURSIVE Depth(_, _)
Depth(s, n) ==
    IF n = 0 THEN 0
    ELSE Depth(s, n - 1) + (IF s[n] = "(" THEN 1 ELSE IF s[n] = ")" THEN -1 ELSE 0)

Balanced(s) == Depth(s, Len(s)) = 0 /\ \A n \in 1..Len(s) : Depth(s, n) >= 0

\* Somewhere in the text a colon is followed, past any whitespace, by a number.
WeightSyntax(s) ==
    \E n \in 1..Len(s) : s[n] = ":" /\ NumberLength(s, n + RunLength("space", s, n)) > 0

\* A separator-delimited tag list without weight: one or more tags, with
\* separators between them and perhaps after them, and nothing else; the
\* parentheses inside its tags are closed and no colon precedes a number.
IsTagList(L) ==
    /\ Balanced(L)
    /\ ~WeightSyntax(L)
    /\ LET r == Run(ends(sepEndBy(tag(eof), sep), eof), L, 0) IN r.ok /\ r.v # <<>>

\* What may stand after the closing delimiters: nothing or a separator,
\* and then nothing or another tag list.
BetweenTexts == { <<>>, <<","," ">> }

FollowTexts == { <<>>, <<"a">> }

InitWrap ==
    /\ prompt_text \in {L \in SeqsUpTo(ListAlphabet, MaxListLen) : IsTagList(L)}
    /\ parsed = NotParsed
    /\ \E open \in {"(", "[", "{"}, opens \in 1..MaxRepeat, closes \in 1..MaxRepeat,
         between \in BetweenTexts, follow \in FollowTexts :
          wrap = [NoWrap EXCEPT !.open = open, !.opens = opens, !.closes = closes,
                                !.between = between, !.follow = follow]
    /\ db = EmptyFile
    /\ StoreIdle /\ StmtIdle /\ SdIdle /\ BatchIdle

\* parse(L), parse(wrapped L), parse(follow) and
\* parse(wrapped L + between + follow)
ParseWrapped ==
    /\ ~parsed.done
    /\ parsed' = ParseResult(parse(prompt_text))
    /\ LET w == Wrapped(prompt_text, wrap.open, wrap.opens, wrap.closes) IN
       wrap' = [wrap EXCEPT !.wrapped = ParseResult(parse(w)),
                            !.followed = ParseResult(parse(wrap.follow)),
                            !.both = ParseResult(parse(w \o wrap.between \o wrap.follow))]
    /\ UNCHANGED <<prompt_text, storeVars, stmtVars, sdVars, batchVars>>

NextWrap == ParseWrapped

SpecWrap == InitWrap /\ [][NextWrap]_vars

-----------------------------------------------------------------------------
(* SpecSd: derive_sd_tags on a "parameters" text of prompt lines and a     *)
(* final line.                                                             *)

MaxPromptLines == 3

PromptLines ==
    { <<"A",","," ","b">>, <<"N","e","g","a","t","i","v","e"," ","p","r","o","m","p","t",":"," ","c",","," ","D">>, <<"e","|","N","e","g","a","t","i","v","e"," ","p","r","o","m","p","t",":"," ","f">>,
      <<"N","e","g","a","t","i","v","e"," ","p","r","o","m","p","t",":"," ">>, <<"(","g",":","1",".","2",")">> }

FinalLines == { <<"S","t","e","p","s",":"," ","2",","," ","S","a","m","p","l","e","r",":"," ","E","u","l","e","r"," ","a">>, <<"S","i","z","e",":"," ","5">>, <<"b","a","d">>, <<>> }

RECURSIVE Join(_, _)
Join(lines, d) ==
    IF Len(lines) = 0 THEN <<>>
    ELSE IF Len(lines) = 1 THEN lines[1]
    ELSE lines[1] \o d \o Join(Tail(lines), d)

InitSd ==
    /\ \E ls \in SeqsUpTo(PromptLines, MaxPromptLines), final \in FinalLines :
          info = Join(Append(ls, final), <<"\n">>)
    /\ out = NoOutput
    /\ db = EmptyFile
    /\ StoreIdle /\ StmtIdle /\ ParseIdle /\ BatchIdle

\* derive_sd_tags(info), run to its end or to its exception
DeriveSd ==
    /\ ~out.done
    /\ LET r == derive_sd_tags(info) IN out' = [done |-> TRUE, ok |-> r.ok, tags |-> r.tags]
    /\ UNCHANGED <<info, storeVars, stmtVars, parseVars, batchVars>>

NextSd == DeriveSd

SpecSd == InitSd /\ [][NextSd]_vars

-----------------------------------------------------------------------------
(* SpecBatch: main over a batch of files.  A file is the stem of its path  *)
(* and what Image.open gives for it.                                       *)

MaxFiles == 3

NovelAi(description, source, comment) ==
    [readable |-> TRUE,
     info |-> ("Software" :> <<"N","o","v","e","l","A","I">>) @@ ("Description" :> description)
              @@ ("Source" :> source) @@ ("Comment" :> comment)]

Sd(parameters) == [readable |-> TRUE, info |-> ("parameters" :> parameters)]

Unreadable == [readable |-> FALSE, info |-> <<>>]

NoMetadata == [readable |-> TRUE, info |-> <<>>]

MissingDescription ==
    [readable |-> TRUE,
     info |-> ("Software" :> <<"N","o","v","e","l","A","I">>) @@ ("Source" :> <<"x">>)
              @@ ("Comment" :> <<"{","\"","u","c","\"",":","\"","b","\"",",","\"","s","t","e","p","s","\"",":","2","}">>)]

File(stem, image) == [stem |-> stem, readable |-> image.readable, info |-> image.info]

FileInputs ==
    { File(<<"a","b">>, Sd(<<"a","\n","S","t","e","p","s",":"," ","2">>)),
      File(<<"c","d">>, Sd(<<"N","e","g","a","t","i","v","e"," ","p","r","o","m","p","t",":"," ","c","\n","S","a","m","p","l","e","r",":"," ","E","u","l","e","r">>)),
      File(<<"z","z">>, Sd(<<"a","\n","S","t","e","p","s",":"," ","2">>)),
      File(<<"a","b">>, Sd(<<"a","\n","b","a","d">>)),
      File(<<"c","d">>, Sd(<<"a">>)),
      File(<<"c","d">>, NovelAi(<<"x">>, <<"N","o","v","e","l","A","I"," ","8","1","2","7","4","D","1","3">>, <<"{","\"","u","c","\"",":","\"","b","\"",",","\"","s","t","e","p","s","\"",":","2","}">>)),
      File(<<"a","b">>, NovelAi(<<"x">>, <<"y">>, <<"{","\"","u","c","\"",":">>)),
      File(<<"a","b">>, NovelAi(<<"x">>, <<"y">>, <<"{","\"","s","t","e","p","s","\"",":","2","}">>)),
      File(<<"a","b">>, NovelAi(<<"x">>, <<"y">>, <<"[","]">>)),
      File(<<"c","d">>, MissingDescription),
      File(<<"a","b">>, Unreadable),
      File(<<"c","d">>, NoMetadata) }

InitBatch ==
    /\ files \in SeqsUpTo(FileInputs, MaxFiles)
    /\ pos = 0
    /\ run = "init"
    /\ db = EmptyFile
    /\ StoreIdle /\ StmtIdle /\ ParseIdle /\ SdIdle

\* main: with contextlib.closing(HTA(hta_path)) as hta
MainOpen ==
    /\ run = "init"
    /\ LET r == HTA_load(db) IN
       /\ db' = r.db
       /\ hta' = r.hta
       /\ run' = IF r.ok THEN "running" ELSE "aborted"
    /\ pos' = 1
    /\ UNCHANGED <<last, calls, atOpen, files, stmtVars, parseVars, sdVars>>

\* main: one iteration of the loop over the files
MainFile ==
    /\ run = "running"
    /\ pos <= Len(files)
    /\ LET d == derive_tags(files[pos]) IN
       IF d.raised
       THEN /\ run' = "aborted"
            /\ hta' = Closed
            /\ UNCHANGED <<db, pos>>
       ELSE IF d.none \/ d.tags = {}
       THEN /\ pos' = pos + 1
            /\ UNCHANGED <<db, hta, run>>
       ELSE \E order \in IterationOrders(d.tags) :
               LET r == add_tags([db |-> db, hta |-> hta], files[pos].stem, order) IN
               /\ db' = r.db
               /\ hta' = IF r.ok THEN r.hta ELSE Closed
               /\ run' = IF r.ok THEN "running" ELSE "aborted"
               /\ pos' = IF r.ok THEN pos + 1 ELSE pos
    /\ UNCHANGED <<last, calls, atOpen, files, stmtVars, parseVars, sdVars>>

\* main: the loop ends and contextlib.closing closes the handle
MainExit ==
    /\ run = "running"
    /\ pos > Len(files)
    /\ run' = "done"
    /\ hta' = Closed
    /\ UNCHANGED <<db, last, calls, atOpen, files, pos, stmtVars, parseVars, sdVars>>

NextBatch == MainOpen \/ MainFile \/ MainExit

SpecBatch == InitBatch /\ [][NextBatch]_vars

-----------------------------------------------------------------------------
(* Properties of the store.                                                *)

AllTables == {"hash_type", "hashes", "mappings", "namespaces", "tags"}

HashIds == {r.hash_id : r \in db.hashes}

TagIds == {r.tag_id : r \in db.tags}

HashValues == {r.hash : r \in db.hashes}

TagTexts == {r.tag : r \in db.tags}

\* C1: a second add_tags with the same hash and the same tag set, made
\* right after a successful first one on the same open handle, raises no
\* error and leaves every table of the file exactly as it was.
C1_AddTagsIdempotent ==
    [][ ( /\ calls' = calls + 1
          /\ last.op = "add_tags" /\ last.ok
          /\ last'.op = "add_tags"
          /\ last'.h = last.h
          /\ Range(last'.order) = Range(last.order) )
        => (last'.ok /\ db' = db) ]_vars

\* C1 witness: a repeated call with a non-empty tag set (one of them
\* namespaced) has returned, and the file holds its rows.
C1_Witness ==
    /\ last.op = "add_tags" /\ last.repeat /\ last.ok
    /\ \E i \in 1..Len(last.order) : ~last.order[i].plain
    /\ db.mappings # {}
    /\ db.namespaces # <<>>

\* C3, state part: one hash_id per hash bytes value and one tag_id per tag
\* text, and the ids the last add_tags resolved are those rows' ids; a
\* call with a well-formed hash raises nothing.
C3_Unique ==
    /\ \A r1, r2 \in db.hashes : (r1.hash = r2.hash) <=> (r1.hash_id = r2.hash_id)
    /\ \A r1, r2 \in db.tags : (r1.tag = r2.tag) <=> (r1.tag_id = r2.tag_id)
    /\ (last.op = "add_tags" /\ fromhex(last.h).ok) =>
          /\ last.ok
          /\ [hash_id |-> last.hash_id, hash |-> fromhex(last.h).bytes] \in db.hashes
          /\ Len(last.tag_ids) = Len(last.order)
          /\ \A i \in 1..Len(last.order) :
                [tag_id |-> last.tag_ids[i], tag |-> CanonText(last.order[i])] \in db.tags

\* C3, step part: a row of hashes or tags, once written, stays as it is
\* through add_tags, close and re-open.
C3_Stable == db.hashes \subseteq db'.hashes /\ db.tags \subseteq db'.tags

\* C3: after any sequence of open / add_tags / close / re-open, every
\* hash bytes value (hex read case-insensitively) has exactly one hash_id
\* and every canonical tag text exactly one tag_id, an identity never
\* changes, and add_tags with a hash or tag seen before resolves to the
\* id it had.
C3_IdentityStable == [](C3_Unique) /\ [][C3_Stable]_vars

\* C3 witness: after a re-open, add_tags given the upper-case hex of a
\* hash and a tag that were both in the file when it was opened has
\* resolved them to the rows of that time.
C3_Witness ==
    /\ last.op = "add_tags" /\ last.ok
    /\ last.h = <<"A","B">>
    /\ [hash_id |-> last.hash_id, hash |-> <<171>>] \in atOpen.hashes
    /\ \E i \in 1..Len(last.order) :
          [tag_id |-> last.tag_ids[i], tag |-> CanonText(last.order[i])] \in atOpen.tags

\* C4: open on a file whose hash_type table is absent, empty or holds
\* another value initializes the whole schema and succeeds; open on an
\* initialized file leaves the file as it is.
C4_OpenInitializes ==
    [][ last'.op = "open"
        => /\ last'.ok
           /\ hta'.open
           /\ db'.tables = AllTables
           /\ MarkerOk(db')
           /\ (MarkerOk(db) => db' = db) ]_vars

\* C10, state part: the ids in use are 1..N and 1..M.
C10_Dense ==
    /\ HashIds = 1..Cardinality(HashValues)
    /\ TagIds = 1..Cardinality(TagTexts)

\* C10, step part: a successful add_tags leaves exactly the hashes and
\* tag texts added so far, gives the new rows the ids after the previous
\* maximum, and changes no row that was there.
C10_Monotone ==
    (calls' = calls + 1 /\ last'.ok) =>
        /\ HashValues' = HashValues \cup {fromhex(last'.h).bytes}
        /\ TagTexts' = TagTexts \cup {CanonText(last'.order[i]) : i \in 1..Len(last'.order)}
        /\ HashIds' \ HashIds = (SetMax(HashIds) + 1)..(SetMax(HashIds) + Cardinality(HashValues' \ HashValues))
        /\ TagIds' \ TagIds = (SetMax(TagIds) + 1)..(SetMax(TagIds) + Cardinality(TagTexts' \ TagTexts))
        /\ db.hashes \subseteq db'.hashes
        /\ db.tags \subseteq db'.tags

\* C10: with one handle open at a time on an archive this store created,
\* the hash_ids in use are exactly 1..N for the N distinct hashes added
\* and the tag_ids exactly 1..M for the M distinct tag texts added; each
\* new identity is the previous maximum plus one and no id is reused.
C10_DenseMonotone == [](C10_Dense) /\ [][C10_Monotone]_vars

\* C10 witness: two hashes and two tag texts have ids 1 and 2, the
\* second pair created after a re-open.
C10_Witness ==
    /\ HashIds = {1, 2}
    /\ TagIds = {1, 2}
    /\ Cardinality(atOpen.hashes) = 1
    /\ Cardinality(atOpen.tags) = 1
    /\ last.op = "add_tags" /\ last.ok

\* C2: a reader of the file never observes part of one add_tags call:
\* what it sees is the file as it was before the call or as it is after
\* the whole call.
C2_ReaderSeesWholeCalls == seen # "partial"

-----------------------------------------------------------------------------
(* Claims about the prompt parser (SpecParse, SpecWrap).                   *)

\* C5: whenever parse returns a result, it has consumed the whole input;
\* otherwise it fails.
C5_StrictConsumption == (parsed.done /\ parsed.ok) => parsed.i = Len(prompt_text)

\* A text of two groups with a tag each is parsed to its end.
C5_Witness ==
    /\ parsed.done /\ parsed.ok
    /\ Len(prompt_text) = MaxTextLen
    /\ Len(parsed.v) = 2
    /\ \A g \in 1..2 : parsed.v[g][1] # <<>>
    /\ parsed.i = Len(prompt_text)

Openers == {"(", "[", "{"}

Closers == {")", "]", "}"}

OpenerOf(c) == CASE c = ")" -> "(" [] c = "]" -> "[" [] c = "}" -> "{"

\* Bracket matching with a stack: TRUE when some closing delimiter of the
\* text closes nothing.
RECURSIVE UnmatchedCloser(_, _)
UnmatchedCloser(s, stack) ==
    IF s = <<>> THEN FALSE
    ELSE IF Head(s) \in Openers THEN UnmatchedCloser(Tail(s), <<Head(s)>> \o stack)
    ELSE IF Head(s) \in Closers
    THEN IF stack # <<>> /\ Head(stack) = OpenerOf(Head(s))
         THEN UnmatchedCloser(Tail(s), Tail(stack))
         ELSE TRUE
    ELSE UnmatchedCloser(Tail(s), stack)

\* A colon after which, past any whitespace, no number starts.
DanglingColon(s) ==
    \E n \in 1..Len(s) :
       /\ s[n] = ":"
       /\ NumberLength(s, n + RunLength("space", s, n)) = 0

\* Some closing delimiter has no opening delimiter of its kind before it.
UnopenedCloser(s) ==
    \E n \in 1..Len(s) :
       /\ s[n] \in Closers
       /\ \A m \in 1..(n - 1) : s[m] # OpenerOf(s[n])

\* A word, a colon, and then the end of the text or a separator and more
\* words: the colon is followed by no number.
WordColon(s) ==
    /\ Len(s) >= 2
    /\ \A n \in 1..Len(s) : IsWordChar(s[n]) \/ s[n] \in {":", ",", " "}
    /\ IsWordChar(s[1])
    /\ \E n \in 2..Len(s) :
          /\ s[n] = ":" /\ IsWordChar(s[n - 1])
          /\ (n = Len(s) \/ s[n + 1] = ",")
          /\ \A m \in 1..Len(s) : s[m] = ":" => m = n

AllFragments(v) == UNION {Range(v[g][1]) : g \in 1..Len(v)}

\* C9 as stated: an unmatched closing delimiter or a dangling colon makes
\* parse fail.
C9_MalformedFails ==
    (parsed.done /\ (UnmatchedCloser(prompt_text, <<>>) \/ DanglingColon(prompt_text)))
        => ~parsed.ok

\* C9, amended: a closing delimiter with no opening delimiter of its kind
\* before it makes parse fail; a colon that follows a word and is followed
\* by the end of the input or a comma does not: parse succeeds and the
\* colon is part of a fragment.
C9_UnopenedCloserFails ==
    /\ (parsed.done /\ UnopenedCloser(prompt_text)) => ~parsed.ok
    /\ (parsed.done /\ WordColon(prompt_text))
          => /\ parsed.ok
             /\ \E f \in AllFragments(parsed.v) : ":" \in Range(f)

\* A word with a colon at its end, before a separator and another word.
C9_Witness ==
    /\ parsed.done /\ parsed.ok
    /\ prompt_text = <<"a",":",",","a">>
    /\ parsed.v = << <<<<<<"a",":">>, <<"a">>>>, None>> >>

-----------------------------------------------------------------------------
(* Claims about the extraction (SpecSd, SpecBatch).                         *)

\* The non-final lines of the text given to derive_sd_tags.
PromptLinesOf(s) == LET lines == split(s, <<"\n">>) IN SubSeq(lines, 1, Len(lines) - 1)

\* The index of the first line with the negative-prompt prefix; one more
\* than the number of lines when there is none.
FirstNegative(lines) ==
    LET neg == {k \in 1..Len(lines) : startswith(lines[k], NegativePrefix)} IN
    IF neg = {} THEN Len(lines) + 1 ELSE CHOOSE k \in neg : \A j \in neg : k <= j

\* The tags of lines k.., plain before line `first` and under uc from it on.
RECURSIVE StickyTags(_, _, _)
StickyTags(lines, k, first) ==
    IF k > Len(lines) THEN <<>>
    ELSE LET ts == parse_tags(sd_line_text(lines[k])) IN
         (IF k < first THEN PlainTags(ts) ELSE UcTags(ts)) \o StickyTags(lines, k + 1, first)

\* C6: the tags of the non-final lines come out in order, plain up to the
\* first line starting with "Negative prompt: " and under the uc namespace
\* from that line on, whatever the later lines start with.
C6_StickyNegative ==
    (out.done /\ Len(split(info, <<"\n">>)) >= 2) =>
       LET lines == PromptLinesOf(info)
           expected == StickyTags(lines, 1, FirstNegative(lines))
       IN  /\ Len(out.tags) >= Len(expected)
           /\ SubSeq(out.tags, 1, Len(expected)) = expected

\* A plain line, a negative-prompt line and then a line without the prefix
\* whose tag comes out under uc.
C6_Witness ==
    /\ out.done /\ out.ok
    /\ LET lines == PromptLinesOf(info) IN
       /\ Len(lines) = 3
       /\ FirstNegative(lines) = 2
       /\ lines[1] = <<"A",","," ","b">>
       /\ lines[3] = <<"(","g",":","1",".","2",")">>
    /\ PlainTag(<<"a">>) \in Range(out.tags)
    /\ NsTag(<<"u","c">>, <<"g">>) \in Range(out.tags)

\* Reading the metadata or deriving the tags of the file raises.
FailsToDerive(file) ==
    \/ ~file.readable
    \/ /\ "Software" \in DOMAIN file.info
       /\ file.info["Software"] = <<"N","o","v","e","l","A","I">>
       /\ ~derive_novel_ai_tags(file.info).ok
    \/ /\ ~("Software" \in DOMAIN file.info /\ file.info["Software"] = <<"N","o","v","e","l","A","I">>)
       /\ "parameters" \in DOMAIN file.info
       /\ ~derive_sd_tags(file.info["parameters"]).ok

\* The store rejects the file: its name is not a hex string.
StoreFails(file) == ~fromhex(file.stem).ok

C7_Skips ==
    (run = "running" /\ pos <= Len(files) /\ FailsToDerive(files[pos]))
        => (db' = db /\ pos' = pos + 1 /\ run' = "running")

C7_OnlyStoreStops ==
    run = "aborted" => (pos \in 1..Len(files) /\ ~FailsToDerive(files[pos]) /\ StoreFails(files[pos]))

\* C7: a file whose metadata cannot be read or whose tags cannot be
\* derived changes nothing in the archive and the batch moves on to the
\* next file; the run stops early only at a file the store rejects.
C7_FailureIsolation == [][C7_Skips]_vars /\ [](C7_OnlyStoreStops)

\* A batch that ran to its end over a file with tags, a file that fails
\* and another file with tags: both good files are in the archive.
C7_Witness ==
    /\ run = "done"
    /\ Len(files) = MaxFiles
    /\ ~FailsToDerive(files[1])
    /\ FailsToDerive(files[2])
    /\ ~FailsToDerive(files[3])
    /\ Cardinality(db.hashes) = 2

====
